---- MODULE Spec2Model ----
(***************************************************************************)
(* p2s: Pub/Sub vulnerability findings routed to Slack channels through a  *)
(* severity threshold per finding type.  The threshold configuration is a  *)
(* package-level struct guarded by a sync.RWMutex; it is read by the       *)
(* Pub/Sub Receive callbacks (processVulnerability) and by GET /config,    *)
(* and written by POST /config.                                            *)
(***************************************************************************)
EXTENDS Naturals, FiniteSets, Sequences, TLC

(* ------------------------------ bounds -------------------------------- *)

\* Messages delivered by the subscription over a run of Spec.
MaxMsgs == 2

\* Messages delivered by the subscription over a run of DecideSpec.
MaxDecideMsgs == 1

\* POST /config requests over a run of Spec.
MaxUpdates == 2

\* POST /config requests over a run of DecideSpec.
MaxDecideUpdates == 1

\* Goroutines running the Receive callback, and goroutines serving HTTP.
Workers == {"w1", "w2"}
Handlers == {"h1", "h2"}

NoProc == "none"

(* ------------------------------ inputs -------------------------------- *)

\* Severity strings carried by findings (raw, as published).
Severities == {"", "unknown", "low", "LOW", "MEDIUM", "HIGH", "CRITICAL"}

\* Finding types carried by findings.
Types == {"OS", "APP", "NETWORK"}

\* The zero Vulnerability, also what a failed json.Unmarshal leaves behind.
NoMsg == [ok |-> FALSE, Severity |-> "", Type |-> ""]

\* Every decodable finding.
Findings == {[ok |-> TRUE, Severity |-> s, Type |-> t] : s \in Severities, t \in Types}

\* The findings published in the runs of Spec, where two workers and two
\* HTTP handlers interleave.
ConcFindings ==
    { [ok |-> TRUE, Severity |-> "CRITICAL", Type |-> "OS"],
      [ok |-> TRUE, Severity |-> "HIGH", Type |-> "APP"] }

\* Forms an operator (or any HTTP client) may POST to /config.  A form is a
\* function from the keys it carries to their values; a key may be absent.
FormV2 ==
    [os_channel |-> "#os-v2", os_severity |-> "LOW",
     app_channel |-> "#app-vulns-v2", app_severity |-> "CRITICAL"]

FormV3 ==
    [os_channel |-> "#os-v3", os_severity |-> "CRITICAL",
     app_channel |-> "#app-v3", app_severity |-> "LOW"]

FormV4 ==
    [os_channel |-> "#os-v4", os_severity |-> "HIGH",
     app_channel |-> "#app-v4", app_severity |-> "MEDIUM"]

FormMalformed ==
    [os_channel |-> "#os-v5", os_severity |-> "high",
     app_channel |-> "#app-v5", app_severity |-> "bogus"]

FormOSOnly == [os_channel |-> "#os-v6", os_severity |-> "HIGH"]

Forms == {FormV2, FormV3, FormV4, FormMalformed, FormOSOnly}

\* The forms posted in the runs of Spec.
ConcForms == {FormV2, FormOSOnly}

NoForm == [none |-> "none"]

(* --------------------------- pure functions --------------------------- *)

\* strings.ToUpper on the strings of the model.
ToUpper(s) ==
    CASE s = "low" -> "LOW"
      [] s = "medium" -> "MEDIUM"
      [] s = "high" -> "HIGH"
      [] s = "critical" -> "CRITICAL"
      [] s = "unknown" -> "UNKNOWN"
      [] s = "bogus" -> "BOGUS"
      [] OTHER -> s

\* var severityLevels = map[string]int{...}
severityLevels ==
    [l \in {"LOW", "MEDIUM", "HIGH", "CRITICAL"} |->
        CASE l = "LOW" -> 1
          [] l = "MEDIUM" -> 2
          [] l = "HIGH" -> 3
          [] l = "CRITICAL" -> 4]

\* Go's map index expression m[k]: the zero value when k is not a key.
MapIndex(m, k) == IF k \in DOMAIN m THEN m[k] ELSE 0

\* gin's c.PostForm(key): the empty string when the form has no such key.
PostForm(f, key) == IF key \in DOMAIN f THEN f[key] ELSE ""

\* Defaults whose APP threshold is MEDIUM.
DefaultConfig_AppMedium ==
    [OSChannelName |-> "#os-vulns", OSMinSeverity |-> "MEDIUM",
     AppChannelName |-> "#app-vulns", AppMinSeverity |-> "MEDIUM"]

\* var config = Config{...}
DefaultConfig ==
    [OSChannelName |-> "#os-vulns", OSMinSeverity |-> "MEDIUM",
     AppChannelName |-> "#app-vulns", AppMinSeverity |-> "HIGH"]

ConfigFields == {"OSChannelName", "OSMinSeverity", "AppChannelName", "AppMinSeverity"}

\* What a worker has read from config for the finding it is deciding.
NoRule ==
    [state |-> "none", category |-> "", minSeverity |-> "", minVer |-> 0,
     channel |-> "", chanVer |-> 0]

(* ------------------------------- state -------------------------------- *)

VARIABLES
    config,        \* the four fields of the package-level config
    rwReaders,     \* config.Mutex: goroutines holding the read lock
    rwWriter,      \* config.Mutex: goroutine that owns the writer mutex (waiting or holding)
    rwWriting,     \* config.Mutex: the writer has seen the readers leave and holds the lock
    pc,            \* Receive callback position, per worker
    msg,           \* the message a worker is handling
    sent,          \* per worker: sendToSlack was called for the current message
    slackErr,      \* per worker: the sendToSlack call logged a failure
    rule,          \* per worker: what it read from config for the current message
    startVer,      \* per worker: updates completed when processVulnerability was called
    hpc,           \* HTTP handler position, per handler goroutine
    form,          \* the form a POST /config handler is applying
    page,          \* the config a GET /config handler rendered
    vulnCounter,   \* vulnerability_reports_total, by (severity, type)
    received,      \* messages delivered
    acked,         \* msg.Ack() calls
    nacked,        \* msg.Nack() calls
    dispatches,    \* sendToSlack calls
    updates,       \* POST /config requests
    cfgVer,        \* per config field: serial number of the update that wrote it
    ver,           \* updates that have entered the write section
    completedVer,  \* serial number of the last update that completed
    committed,     \* config as the last completed update left it (initially the defaults)
    committedForm  \* the form of the last completed update

vars ==
    << config, rwReaders, rwWriter, rwWriting, pc, msg, sent, slackErr, rule, startVer,
       hpc, form, page, vulnCounter, received, acked, nacked, dispatches, updates,
       cfgVer, ver, completedVer, committed, committedForm >>

workerVars == << pc, msg, sent, slackErr, rule, startVer >>
handlerVars == << hpc, form, page >>
lockVars == << rwReaders, rwWriter, rwWriting >>
totalVars == << received, acked, nacked, dispatches, updates >>
storeVars == << config, cfgVer, ver, completedVer, committed, committedForm >>

CounterKeys == Severities \X Types

Init ==
    /\ config = DefaultConfig
    /\ rwReaders = {}
    /\ rwWriter = NoProc
    /\ rwWriting = FALSE
    /\ pc = [w \in Workers |-> "idle"]
    /\ msg = [w \in Workers |-> NoMsg]
    /\ sent = [w \in Workers |-> FALSE]
    /\ slackErr = [w \in Workers |-> FALSE]
    /\ rule = [w \in Workers |-> NoRule]
    /\ startVer = [w \in Workers |-> 0]
    /\ hpc = [h \in Handlers |-> "idle"]
    /\ form = [h \in Handlers |-> NoForm]
    /\ page = [h \in Handlers |-> NoForm]
    /\ vulnCounter = [k \in CounterKeys |-> 0]
    /\ received = 0
    /\ acked = 0
    /\ nacked = 0
    /\ dispatches = 0
    /\ updates = 0
    /\ cfgVer = [f \in ConfigFields |-> 0]
    /\ ver = 0
    /\ completedVer = 0
    /\ committed = DefaultConfig
    /\ committedForm = NoForm

(* ------------------------- config.Mutex (RWMutex) --------------------- *)

\* RLock that does not wait for a writer (a reader that skips the lock).
CanRLock_NoWait == TRUE

\* RLock succeeds only while no writer owns or awaits the lock.
CanRLock == rwWriter = NoProc

\* Lock first takes the writer mutex, which announces the writer to readers.
CanLockW == rwWriter = NoProc

\* Lock that does not wait for the active readers to leave.
CanLockDrain_NoWait(h) == rwWriter = h

\* Lock then waits for the readers that were active to leave.
CanLockDrain(h) == rwWriter = h /\ rwReaders = {}

(* ---------------------- Receive callback (Pub/Sub) -------------------- *)

\* A counter that counts only the findings whose severity is recognized.
CounterInc_KnownOnly(c, v) ==
    IF ToUpper(v.Severity) \in DOMAIN severityLevels
    THEN [c EXCEPT ![<<v.Severity, v.Type>>] = @ + 1]
    ELSE c

\* vulnCounter.WithLabelValues(v.Severity, v.Type).Inc()
CounterInc(c, v) == [c EXCEPT ![<<v.Severity, v.Type>>] = @ + 1]

\* The decode-failure branch without its return: Nack, then carry on.
ReceiveInvalid_NoReturn(w, maxMsgs) ==
    /\ pc[w] = "idle"
    /\ received < maxMsgs
    /\ received' = received + 1
    /\ nacked' = nacked + 1
    /\ pc' = [pc EXCEPT ![w] = "rlock"]
    /\ UNCHANGED << msg, sent, slackErr, rule, startVer >>
    /\ UNCHANGED << acked, dispatches, updates, vulnCounter >>
    /\ UNCHANGED << handlerVars, lockVars, storeVars >>

\* json.Unmarshal fails: log, Nack, return.
ReceiveInvalid(w, maxMsgs) ==
    /\ pc[w] = "idle"
    /\ received < maxMsgs
    /\ received' = received + 1
    /\ nacked' = nacked + 1
    /\ UNCHANGED << acked, dispatches, updates, vulnCounter >>
    /\ UNCHANGED << workerVars, handlerVars, lockVars, storeVars >>

\* json.Unmarshal succeeds: count the finding, call processVulnerability.
ReceiveFinding(w, findings, maxMsgs) ==
    /\ pc[w] = "idle"
    /\ received < maxMsgs
    /\ \E m \in findings :
        /\ msg' = [msg EXCEPT ![w] = m]
        /\ vulnCounter' = CounterInc(vulnCounter, m)
    /\ received' = received + 1
    /\ pc' = [pc EXCEPT ![w] = "rlock"]
    /\ startVer' = [startVer EXCEPT ![w] = completedVer]
    /\ UNCHANGED << sent, slackErr, rule, acked, nacked, dispatches, updates >>
    /\ UNCHANGED << handlerVars, lockVars, storeVars >>

(* ------------------------- processVulnerability ----------------------- *)

\* The rank looked up without uppercasing the severity.
SeverityRank_NoUpper(v) == MapIndex(severityLevels, v.Severity)

\* severityRank := severityLevels[strings.ToUpper(v.Severity)]
SeverityRank(v) == MapIndex(severityLevels, ToUpper(v.Severity))

\* v.Type == "OS"
IsOS(v) == v.Type = "OS"

\* A plain else in place of the else-if's type test.
IsApp_NoTypeTest(v) == TRUE

\* v.Type == "APP"
IsApp(v) == v.Type = "APP"

\* A comparison that uppercases the stored threshold before ranking it.
MeetsThreshold_UpperThreshold(severityRank, minSeverity) ==
    severityRank >= MapIndex(severityLevels, ToUpper(minSeverity))

\* A strict comparison in place of >=.
MeetsThreshold_Strict(severityRank, minSeverity) ==
    severityRank > MapIndex(severityLevels, minSeverity)

\* severityRank >= severityLevels[minSeverity]
MeetsThreshold(severityRank, minSeverity) ==
    severityRank >= MapIndex(severityLevels, minSeverity)

\* The first operand of the if: the OS branch is taken.
TakesOS(v) == IsOS(v) /\ MeetsThreshold(SeverityRank(v), config.OSMinSeverity)

\* The else-if, evaluated when the if's condition is false: the APP branch is taken.
TakesApp(v) == ~TakesOS(v) /\ IsApp(v) /\ MeetsThreshold(SeverityRank(v), config.AppMinSeverity)

\* The threshold a decision compared last, with the update that wrote it.
ReadThreshold(r, v) ==
    IF ~TakesOS(v) /\ IsApp(v)
    THEN [r EXCEPT !.state = "threshold", !.category = "APP",
                   !.minSeverity = config.AppMinSeverity, !.minVer = cfgVer.AppMinSeverity]
    ELSE IF IsOS(v)
    THEN [r EXCEPT !.state = "threshold", !.category = "OS",
                   !.minSeverity = config.OSMinSeverity, !.minVer = cfgVer.OSMinSeverity]
    ELSE r

\* config.Mutex.RLock()
RLock(w) ==
    /\ pc[w] = "rlock"
    /\ CanRLock
    /\ rwReaders' = rwReaders \cup {w}
    /\ pc' = [pc EXCEPT ![w] = "decide"]
    /\ UNCHANGED << msg, sent, slackErr, rule, startVer, rwWriter, rwWriting, vulnCounter >>
    /\ UNCHANGED << handlerVars, totalVars, storeVars >>

\* A decision that first uppercases the stored thresholds in place.
Decide_NormalisesConfig(w) ==
    /\ pc[w] = "decide"
    /\ config' = [config EXCEPT !.OSMinSeverity = ToUpper(@), !.AppMinSeverity = ToUpper(@)]
    /\ rule' = [rule EXCEPT ![w] = ReadThreshold(@, msg[w])]
    /\ pc' = [pc EXCEPT ![w] =
                 IF TakesOS(msg[w]) THEN "call_os"
                 ELSE IF TakesApp(msg[w]) THEN "call_app"
                 ELSE "runlock"]
    /\ UNCHANGED << msg, sent, slackErr, startVer, vulnCounter >>
    /\ UNCHANGED << cfgVer, ver, completedVer, committed, committedForm >>
    /\ UNCHANGED << handlerVars, lockVars, totalVars >>

\* if v.Type == "OS" && severityRank >= severityLevels[config.OSMinSeverity] {...}
\* else if v.Type == "APP" && severityRank >= severityLevels[config.AppMinSeverity] {...}
Decide(w) ==
    /\ pc[w] = "decide"
    /\ rule' = [rule EXCEPT ![w] = ReadThreshold(@, msg[w])]
    /\ pc' = [pc EXCEPT ![w] =
                 IF TakesOS(msg[w]) THEN "call_os"
                 ELSE IF TakesApp(msg[w]) THEN "call_app"
                 ELSE "runlock"]
    /\ UNCHANGED << msg, sent, slackErr, startVer, vulnCounter >>
    /\ UNCHANGED << handlerVars, lockVars, totalVars, storeVars >>

\* sendToSlack(config.OSChannelName, v): the argument is read, the call starts.
CallOS(w) ==
    /\ pc[w] = "call_os"
    /\ rule' = [rule EXCEPT ![w] =
                   [@ EXCEPT !.state = "rule",
                             !.channel = config.OSChannelName,
                             !.chanVer = cfgVer.OSChannelName]]
    /\ sent' = [sent EXCEPT ![w] = TRUE]
    /\ dispatches' = dispatches + 1
    /\ pc' = [pc EXCEPT ![w] = "slack"]
    /\ UNCHANGED << msg, slackErr, startVer, vulnCounter, received, acked, nacked, updates >>
    /\ UNCHANGED << handlerVars, lockVars, storeVars >>

\* The APP branch passing config.OSChannelName to sendToSlack.
CallApp_OSChannel(w) ==
    /\ pc[w] = "call_app"
    /\ rule' = [rule EXCEPT ![w] =
                   [@ EXCEPT !.state = "rule",
                             !.channel = config.OSChannelName,
                             !.chanVer = cfgVer.OSChannelName]]
    /\ sent' = [sent EXCEPT ![w] = TRUE]
    /\ dispatches' = dispatches + 1
    /\ pc' = [pc EXCEPT ![w] = "slack"]
    /\ UNCHANGED << msg, slackErr, startVer, vulnCounter, received, acked, nacked, updates >>
    /\ UNCHANGED << handlerVars, lockVars, storeVars >>

\* sendToSlack(config.AppChannelName, v): the argument is read, the call starts.
CallApp(w) ==
    /\ pc[w] = "call_app"
    /\ rule' = [rule EXCEPT ![w] =
                   [@ EXCEPT !.state = "rule",
                             !.channel = config.AppChannelName,
                             !.chanVer = cfgVer.AppChannelName]]
    /\ sent' = [sent EXCEPT ![w] = TRUE]
    /\ dispatches' = dispatches + 1
    /\ pc' = [pc EXCEPT ![w] = "slack"]
    /\ UNCHANGED << msg, slackErr, startVer, vulnCounter, received, acked, nacked, updates >>
    /\ UNCHANGED << handlerVars, lockVars, storeVars >>

\* sendToSlack returns after a response with a status below 300.
SlackOk(w) ==
    /\ pc[w] = "slack"
    /\ slackErr' = [slackErr EXCEPT ![w] = FALSE]
    /\ pc' = [pc EXCEPT ![w] = "runlock"]
    /\ UNCHANGED << msg, sent, rule, startVer, vulnCounter >>
    /\ UNCHANGED << handlerVars, lockVars, totalVars, storeVars >>

\* A failed sendToSlack that is tried again.
SlackFail_Retry(w) ==
    /\ pc[w] = "slack"
    /\ slackErr' = [slackErr EXCEPT ![w] = TRUE]
    /\ pc' = [pc EXCEPT ![w] = IF rule[w].category = "OS" THEN "call_os" ELSE "call_app"]
    /\ UNCHANGED << msg, sent, rule, startVer, vulnCounter >>
    /\ UNCHANGED << handlerVars, lockVars, totalVars, storeVars >>

\* A failed sendToSlack that makes the callback reject the message.
SlackFail_Nack(w) ==
    /\ pc[w] = "slack"
    /\ nacked' = nacked + 1
    /\ rwReaders' = rwReaders \ {w}
    /\ pc' = [pc EXCEPT ![w] = "idle"]
    /\ msg' = [msg EXCEPT ![w] = NoMsg]
    /\ sent' = [sent EXCEPT ![w] = FALSE]
    /\ slackErr' = [slackErr EXCEPT ![w] = FALSE]
    /\ rule' = [rule EXCEPT ![w] = NoRule]
    /\ startVer' = [startVer EXCEPT ![w] = 0]
    /\ UNCHANGED << rwWriter, rwWriting, vulnCounter, received, acked, dispatches, updates >>
    /\ UNCHANGED << handlerVars, storeVars >>

\* sendToSlack returns after logging a marshal error, a transport error or a
\* status >= 300.
SlackFail(w) ==
    /\ pc[w] = "slack"
    /\ slackErr' = [slackErr EXCEPT ![w] = TRUE]
    /\ pc' = [pc EXCEPT ![w] = "runlock"]
    /\ UNCHANGED << msg, sent, rule, startVer, vulnCounter >>
    /\ UNCHANGED << handlerVars, lockVars, totalVars, storeVars >>

\* An RUnlock placed after the sendToSlack calls only: the path without a
\* dispatch returns with the read lock held.
RUnlock_OnlyAfterDispatch(w) ==
    /\ pc[w] = "runlock"
    /\ rwReaders' = IF sent[w] THEN rwReaders \ {w} ELSE rwReaders
    /\ pc' = [pc EXCEPT ![w] = "ack"]
    /\ UNCHANGED << msg, sent, slackErr, rule, startVer, rwWriter, rwWriting, vulnCounter >>
    /\ UNCHANGED << handlerVars, totalVars, storeVars >>

\* defer config.Mutex.RUnlock(), run as processVulnerability returns.
RUnlock(w) ==
    /\ pc[w] = "runlock"
    /\ rwReaders' = rwReaders \ {w}
    /\ pc' = [pc EXCEPT ![w] = "ack"]
    /\ UNCHANGED << msg, sent, slackErr, rule, startVer, rwWriter, rwWriting, vulnCounter >>
    /\ UNCHANGED << handlerVars, totalVars, storeVars >>

\* msg.Ack(), and the callback returns: its locals are gone.
Ack(w) ==
    /\ pc[w] = "ack"
    /\ acked' = acked + 1
    /\ pc' = [pc EXCEPT ![w] = "idle"]
    /\ msg' = [msg EXCEPT ![w] = NoMsg]
    /\ sent' = [sent EXCEPT ![w] = FALSE]
    /\ slackErr' = [slackErr EXCEPT ![w] = FALSE]
    /\ rule' = [rule EXCEPT ![w] = NoRule]
    /\ startVer' = [startVer EXCEPT ![w] = 0]
    /\ UNCHANGED << vulnCounter, received, nacked, dispatches, updates >>
    /\ UNCHANGED << handlerVars, lockVars, storeVars >>

(* ------------------------------ GET /config --------------------------- *)

\* A GET /config request: config.Mutex.RLock()
ViewRLock(h) ==
    /\ hpc[h] = "idle"
    /\ CanRLock
    /\ rwReaders' = rwReaders \cup {h}
    /\ hpc' = [hpc EXCEPT ![h] = "view_render"]
    /\ UNCHANGED << form, page, rwWriter, rwWriting, vulnCounter >>
    /\ UNCHANGED << workerVars, totalVars, storeVars >>

\* tmpl.Execute(c.Writer, config)
ViewRender(h) ==
    /\ hpc[h] = "view_render"
    /\ page' = [page EXCEPT ![h] = config]
    /\ hpc' = [hpc EXCEPT ![h] = "view_runlock"]
    /\ UNCHANGED << form, vulnCounter >>
    /\ UNCHANGED << workerVars, lockVars, totalVars, storeVars >>

\* defer config.Mutex.RUnlock(); the response is complete.
ViewRUnlock(h) ==
    /\ hpc[h] = "view_runlock"
    /\ rwReaders' = rwReaders \ {h}
    /\ page' = [page EXCEPT ![h] = NoForm]
    /\ hpc' = [hpc EXCEPT ![h] = "idle"]
    /\ UNCHANGED << form, rwWriter, rwWriting, vulnCounter >>
    /\ UNCHANGED << workerVars, totalVars, storeVars >>

(* ------------------------------ POST /config -------------------------- *)

\* A POST /config request carrying one of `forms`: config.Mutex.Lock(), first
\* half: own the writer mutex; readers arriving from now on wait.
PostLock(h, forms, maxUpdates) ==
    /\ hpc[h] = "idle"
    /\ updates < maxUpdates
    /\ CanLockW
    /\ \E f \in forms : form' = [form EXCEPT ![h] = f]
    /\ updates' = updates + 1
    /\ rwWriter' = h
    /\ hpc' = [hpc EXCEPT ![h] = "drain"]
    /\ UNCHANGED << page, rwReaders, rwWriting, vulnCounter >>
    /\ UNCHANGED << received, acked, nacked, dispatches >>
    /\ UNCHANGED << workerVars, storeVars >>

\* config.Mutex.Lock(), second half: the active readers have left.
PostLocked(h) ==
    /\ hpc[h] = "drain"
    /\ CanLockDrain(h)
    /\ rwWriting' = TRUE
    /\ ver' = ver + 1
    /\ hpc' = [hpc EXCEPT ![h] = "set_os_channel"]
    /\ UNCHANGED << form, page, rwReaders, rwWriter, vulnCounter >>
    /\ UNCHANGED << config, cfgVer, completedVer, committed, committedForm >>
    /\ UNCHANGED << workerVars, totalVars >>

\* One assignment of the handler: config.<field> = <value>.
SetField(h, at, field, value, next) ==
    /\ hpc[h] = at
    /\ config' = [config EXCEPT ![field] = value]
    /\ cfgVer' = [cfgVer EXCEPT ![field] = ver]
    /\ hpc' = [hpc EXCEPT ![h] = next]
    /\ UNCHANGED << form, page, vulnCounter, ver, completedVer, committed, committedForm >>
    /\ UNCHANGED << workerVars, lockVars, totalVars >>

\* config.OSChannelName = c.PostForm("os_channel")
PostSetOSChannel(h) ==
    SetField(h, "set_os_channel", "OSChannelName",
             PostForm(form[h], "os_channel"), "set_os_severity")

\* The handler without its assignment to config.OSMinSeverity.
PostSetOSMinSeverity_Skip(h) ==
    /\ hpc[h] = "set_os_severity"
    /\ hpc' = [hpc EXCEPT ![h] = "set_app_channel"]
    /\ UNCHANGED << form, page, vulnCounter >>
    /\ UNCHANGED << workerVars, lockVars, totalVars, storeVars >>

\* The assignment to config.OSMinSeverity taking its value from config.AppMinSeverity.
PostSetOSMinSeverity_FromApp(h) ==
    SetField(h, "set_os_severity", "OSMinSeverity", config.AppMinSeverity, "set_app_channel")

\* config.OSMinSeverity = c.PostForm("os_severity")
PostSetOSMinSeverity(h) ==
    SetField(h, "set_os_severity", "OSMinSeverity",
             PostForm(form[h], "os_severity"), "set_app_channel")

\* config.AppChannelName = c.PostForm("app_channel")
PostSetAppChannel(h) ==
    SetField(h, "set_app_channel", "AppChannelName",
             PostForm(form[h], "app_channel"), "set_app_severity")

\* config.AppMinSeverity = c.PostForm("app_severity")
PostSetAppMinSeverity(h) ==
    SetField(h, "set_app_severity", "AppMinSeverity",
             PostForm(form[h], "app_severity"), "unlock")

\* c.Redirect(...), then the deferred config.Mutex.Unlock(); the update is complete.
PostUnlock(h) ==
    /\ hpc[h] = "unlock"
    /\ rwWriter' = NoProc
    /\ rwWriting' = FALSE
    /\ completedVer' = ver
    /\ committed' = config
    /\ committedForm' = form[h]
    /\ form' = [form EXCEPT ![h] = NoForm]
    /\ hpc' = [hpc EXCEPT ![h] = "idle"]
    /\ UNCHANGED << page, rwReaders, vulnCounter, config, cfgVer, ver >>
    /\ UNCHANGED << workerVars, totalVars >>

(* ------------------------------ the system ---------------------------- *)

\* Two Receive callbacks and two HTTP requests at a time.
Next ==
    \/ \E w \in Workers : ReceiveInvalid(w, MaxMsgs)
    \/ \E w \in Workers : ReceiveFinding(w, ConcFindings, MaxMsgs)
    \/ \E w \in Workers : RLock(w)
    \/ \E w \in Workers : Decide(w)
    \/ \E w \in Workers : CallOS(w)
    \/ \E w \in Workers : CallApp(w)
    \/ \E w \in Workers : SlackOk(w)
    \/ \E w \in Workers : SlackFail(w)
    \/ \E w \in Workers : RUnlock(w)
    \/ \E w \in Workers : Ack(w)
    \/ \E h \in Handlers : ViewRLock(h)
    \/ \E h \in Handlers : ViewRender(h)
    \/ \E h \in Handlers : ViewRUnlock(h)
    \/ \E h \in Handlers : PostLock(h, ConcForms, MaxUpdates)
    \/ \E h \in Handlers : PostLocked(h)
    \/ \E h \in Handlers : PostSetOSChannel(h)
    \/ \E h \in Handlers : PostSetOSMinSeverity(h)
    \/ \E h \in Handlers : PostSetAppChannel(h)
    \/ \E h \in Handlers : PostSetAppMinSeverity(h)
    \/ \E h \in Handlers : PostUnlock(h)

Spec == Init /\ [][Next]_vars

\* One Receive callback and one HTTP request at a time, every finding and
\* every form.
DecideWorkers == {"w1"}
DecideHandlers == {"h1"}

DecideNext ==
    \/ \E w \in DecideWorkers : ReceiveInvalid(w, MaxDecideMsgs)
    \/ \E w \in DecideWorkers : ReceiveFinding(w, Findings, MaxDecideMsgs)
    \/ \E w \in DecideWorkers : RLock(w)
    \/ \E w \in DecideWorkers : Decide(w)
    \/ \E w \in DecideWorkers : CallOS(w)
    \/ \E w \in DecideWorkers : CallApp(w)
    \/ \E w \in DecideWorkers : SlackOk(w)
    \/ \E w \in DecideWorkers : SlackFail(w)
    \/ \E w \in DecideWorkers : RUnlock(w)
    \/ \E w \in DecideWorkers : Ack(w)
    \/ \E h \in DecideHandlers : ViewRLock(h)
    \/ \E h \in DecideHandlers : ViewRender(h)
    \/ \E h \in DecideHandlers : ViewRUnlock(h)
    \/ \E h \in DecideHandlers : PostLock(h, Forms, MaxDecideUpdates)
    \/ \E h \in DecideHandlers : PostLocked(h)
    \/ \E h \in DecideHandlers : PostSetOSChannel(h)
    \/ \E h \in DecideHandlers : PostSetOSMinSeverity(h)
    \/ \E h \in DecideHandlers : PostSetAppChannel(h)
    \/ \E h \in DecideHandlers : PostSetAppMinSeverity(h)
    \/ \E h \in DecideHandlers : PostUnlock(h)

DecideSpec == Init /\ [][DecideNext]_vars

\* The Go scheduler runs every runnable goroutine, and a lock that is free is
\* taken by a goroutine waiting for it.  Nothing obliges a message or an HTTP
\* request to arrive, nor the Slack webhook to answer: http.Post is called
\* on the default client, which has no timeout.
Fairness ==
    /\ \A w \in Workers :
        /\ WF_vars(RLock(w))
        /\ WF_vars(Decide(w))
        /\ WF_vars(CallOS(w))
        /\ WF_vars(CallApp(w))
        /\ WF_vars(RUnlock(w))
        /\ WF_vars(Ack(w))
    /\ \A h \in Handlers :
        /\ WF_vars(ViewRender(h))
        /\ WF_vars(ViewRUnlock(h))
        /\ WF_vars(PostLocked(h))
        /\ WF_vars(PostSetOSChannel(h))
        /\ WF_vars(PostSetOSMinSeverity(h))
        /\ WF_vars(PostSetAppChannel(h))
        /\ WF_vars(PostSetAppMinSeverity(h))
        /\ WF_vars(PostUnlock(h))

FairSpec == Spec /\ Fairness

(* ------------------------------ properties ---------------------------- *)

KnownLabels == {"LOW", "MEDIUM", "HIGH", "CRITICAL"}

KnownTypes == {"OS", "APP"}

\* The labels ranked strictly below a label in LOW < MEDIUM < HIGH < CRITICAL.
LabelsBelow(l) ==
    CASE l = "MEDIUM" -> {"LOW"}
      [] l = "HIGH" -> {"LOW", "MEDIUM"}
      [] l = "CRITICAL" -> {"LOW", "MEDIUM", "HIGH"}
      [] OTHER -> {}

\* A severity label ranks at or above a known threshold label.
RanksAtLeast(label, threshold) ==
    label \in KnownLabels /\ (label = threshold \/ threshold \in LabelsBelow(label))

\* The threshold config stores for a finding type.
StoredThreshold(type) ==
    IF type = "OS" THEN config.OSMinSeverity ELSE config.AppMinSeverity

\* A worker is between RLock and RUnlock.
InReadSection(w) == pc[w] \in {"decide", "call_os", "call_app", "slack", "runlock"}

\* A GET /config handler is between RLock and RUnlock.
InViewSection(h) == hpc[h] \in {"view_render", "view_runlock"}

\* A POST /config handler is between Lock and Unlock.
InWriteSection(h) ==
    hpc[h] \in {"set_os_channel", "set_os_severity", "set_app_channel",
                "set_app_severity", "unlock"}

\* C1: for a finding of type OS or APP, when the threshold stored for that type
\* is one of LOW, MEDIUM, HIGH, CRITICAL, the finding is dispatched if and only
\* if its uppercased severity ranks at or above the threshold: below the
\* threshold never, exactly at the threshold always.
C1_ThresholdGate ==
    \A w \in Workers :
        ( /\ pc[w] = "runlock"
          /\ msg[w].Type \in KnownTypes
          /\ StoredThreshold(msg[w].Type) \in KnownLabels )
        => ( sent[w] <=>
               RanksAtLeast(ToUpper(msg[w].Severity), StoredThreshold(msg[w].Type)) )

\* An APP finding exactly at an updated threshold has been dispatched, after
\* a decision against a threshold installed by an update.
C1_Witness ==
    \E w \in Workers :
        /\ pc[w] = "runlock"
        /\ msg[w].Type = "APP"
        /\ msg[w].Severity = "CRITICAL"
        /\ config.AppMinSeverity = "CRITICAL"
        /\ sent[w]

\* C2 (as claimed): a finding whose uppercased severity is none of the four
\* labels is never dispatched, whatever its type and the stored thresholds.
C2_UnknownSeverityNeverDispatches ==
    \A w \in Workers :
        (msg[w].ok /\ ToUpper(msg[w].Severity) \notin KnownLabels) => ~sent[w]

\* C3: a finding whose type is neither "OS" nor "APP" is never dispatched,
\* whatever its severity and the stored thresholds.
C3_UnknownTypeNeverDispatches ==
    \A w \in Workers :
        (msg[w].ok /\ msg[w].Type \notin KnownTypes)
        => (~sent[w] /\ pc[w] \notin {"call_os", "call_app", "slack"})

\* A CRITICAL finding of type NETWORK has been decided, undispatched, while
\* both stored thresholds rank 0.
C3_Witness ==
    \E w \in Workers :
        /\ pc[w] = "runlock"
        /\ msg[w].Type = "NETWORK"
        /\ msg[w].Severity = "CRITICAL"
        /\ config.OSMinSeverity = "high"
        /\ config.AppMinSeverity = "bogus"
        /\ ~sent[w]

\* C4: the threshold a decision compared and the channel it dispatches to
\* were written by the same update (or are both the initial defaults).
C4_RuleFromOneUpdate ==
    \A w \in Workers :
        rule[w].state = "rule" => rule[w].minVer = rule[w].chanVer

\* A worker dispatches on a rule installed by the first update while the
\* second update waits for it to leave.
C4_Witness ==
    \E w \in Workers, h \in Handlers :
        /\ rule[w].state = "rule"
        /\ rule[w].minVer = 1
        /\ rule[w].chanVer = 1
        /\ hpc[h] = "drain"

\* C5 (as claimed): a worker inside sendToSlack does not hold the read lock.
C5_NoLockAcrossDispatch ==
    \A w \in Workers : pc[w] = "slack" => w \notin rwReaders

\* C6 (as claimed): an update that has started to acquire the write lock
\* eventually installs its rule and completes.
C6_UpdateCompletes ==
    \A h \in Handlers : (hpc[h] = "drain") ~> (hpc[h] = "idle")

\* C7 (as claimed): an update whose form carries only the OS rule leaves the
\* APP channel and threshold as they were before the update.
C7_OtherCategoryUntouched ==
    \A h \in Handlers :
        (hpc[h] = "unlock" /\ DOMAIN form[h] = {"os_channel", "os_severity"})
        => ( /\ config.AppChannelName = committed.AppChannelName
             /\ config.AppMinSeverity = committed.AppMinSeverity )

\* C8: a finding whose processing started after an update completed is
\* decided on fields written by that update or a later one, never on the
\* ones it replaced; with no update since, on exactly what it installed.
C8_SeesCompletedUpdate ==
    \A w \in Workers :
        /\ rule[w].state # "none" => rule[w].minVer >= startVer[w]
        /\ rule[w].state = "rule" => rule[w].chanVer >= startVer[w]
        /\ (rule[w].state # "none" /\ ver = startVer[w])
            => rule[w].minSeverity =
                 (IF rule[w].category = "OS" THEN committed.OSMinSeverity
                  ELSE committed.AppMinSeverity)

\* A finding received after the first update completed is dispatched to the
\* channel that update installed.
C8_Witness ==
    \E w \in Workers :
        /\ startVer[w] = 1
        /\ rule[w].state = "rule"
        /\ rule[w].minVer = 1
        /\ rule[w].channel = "#os-v2"

\* C9: while an update is in its write section no worker and no view is in
\* its read section, and no other update is in the write section.
C9_ReadersXorWriter ==
    \A h \in Handlers :
        InWriteSection(h)
        => ( /\ \A w \in Workers : ~InReadSection(w)
             /\ \A g \in Handlers : ~InViewSection(g)
             /\ \A g \in Handlers \ {h} : ~InWriteSection(g) )

\* An update is in its write section while both workers wait to read.
C9_Witness ==
    \E h \in Handlers :
        /\ InWriteSection(h)
        /\ \A w \in Workers : pc[w] = "rlock"

\* C10: an update carrying the form of the update completed just before it
\* leaves config exactly as that update left it.
C10_Idempotent ==
    \A h \in Handlers :
        (hpc[h] = "unlock" /\ form[h] = committedForm) => config = committed

\* The same form has been applied a second time in succession.
C10_Witness ==
    \E h \in Handlers :
        /\ hpc[h] = "unlock"
        /\ form[h] = committedForm
        /\ completedVer = 1

\* C11: every callback that returns for a decoded message has acknowledged
\* it, once, and has not rejected it; an acknowledgment is made only by a
\* worker that is past its decision, its dispatch call and its RUnlock.
C11_AckOnceAfterDecision ==
    [][ /\ \A w \in Workers :
            (pc[w] # "idle" /\ pc'[w] = "idle")
            => (pc[w] = "ack" /\ msg[w].ok /\ acked' = acked + 1 /\ nacked' = nacked)
        /\ acked' # acked
            => \E w \in Workers : pc[w] = "ack" /\ pc'[w] = "idle" /\ acked' = acked + 1
        /\ nacked' # nacked => \A w \in Workers : pc[w] = "idle" \/ pc'[w] = pc[w]
      ]_vars

\* One message has been acknowledged and the other is about to be, after a
\* dispatch that failed.
C11_Witness ==
    \E w \in Workers :
        /\ acked = 1
        /\ pc[w] = "ack"
        /\ sent[w]
        /\ slackErr[w]

\* C12: the step that rejects a message changes nothing but the totals of
\* received and rejected messages: no acknowledgment, no counter, no lock,
\* no dispatch, no worker left in flight; and no worker is ever in flight
\* with a message that did not decode.
C12_InvalidOnlyNacked ==
    [][ /\ nacked' # nacked
            => ( /\ nacked' = nacked + 1
                 /\ received' = received + 1
                 /\ UNCHANGED << acked, dispatches, vulnCounter >>
                 /\ UNCHANGED << pc, msg, sent, rule >>
                 /\ UNCHANGED << lockVars, storeVars >> )
        /\ \A w \in Workers : pc'[w] # "idle" => msg'[w].ok
      ]_vars

\* A message has been rejected while another worker is processing a finding.
C12_Witness ==
    /\ nacked = 1
    /\ acked = 0
    /\ \E w \in Workers : pc[w] = "decide"

\* The elements of a set, in some order.
RECURSIVE SeqOf(_)
SeqOf(S) ==
    IF S = {} THEN << >>
    ELSE LET x == CHOOSE y \in S : TRUE
         IN << x >> \o SeqOf(S \ {x})

CounterKeySeq == SeqOf(CounterKeys)

\* The sum of the counters of the first n label pairs.
RECURSIVE SumUpTo(_, _)
SumUpTo(c, n) ==
    IF n = 0 THEN 0 ELSE c[CounterKeySeq[n]] + SumUpTo(c, n - 1)

\* The workers in flight with the same finding labels as worker w.
SameLabels(w) ==
    {u \in Workers : pc[u] # "idle" /\ msg[u].Severity = msg[w].Severity
                                      /\ msg[u].Type = msg[w].Type}

\* C13: the counters sum to the number of findings decoded so far (received
\* and not rejected), dispatched or not; and a finding is already counted,
\* under its own severity and type, from the moment its worker is in flight,
\* that is before its routing decision.
C13_CountedOncePerFinding ==
    /\ SumUpTo(vulnCounter, Len(CounterKeySeq)) = received - nacked
    /\ \A w \in Workers :
        pc[w] # "idle"
        => vulnCounter[<<msg[w].Severity, msg[w].Type>>] >= Cardinality(SameLabels(w))

\* A NETWORK finding of unknown severity has been counted and decided
\* without a dispatch.
C13_Witness ==
    \E w \in Workers :
        /\ pc[w] = "runlock"
        /\ msg[w].Type = "NETWORK"
        /\ msg[w].Severity = "unknown"
        /\ ~sent[w]
        /\ vulnCounter[<<"unknown", "NETWORK">>] = 1

\* The channel config stores for a finding type.
StoredChannel(type) ==
    IF type = "OS" THEN config.OSChannelName ELSE config.AppChannelName

\* C14: an update stores the minimum severities of its form verbatim, and
\* while the threshold stored for OS or APP is none of the four uppercase
\* labels, every finding of that type is dispatched, to that type's channel,
\* whatever its severity.
C14_MalformedThresholdAlwaysNotifies ==
    /\ committedForm # NoForm
        => ( /\ committed.OSMinSeverity = PostForm(committedForm, "os_severity")
             /\ committed.AppMinSeverity = PostForm(committedForm, "app_severity") )
    /\ \A w \in Workers :
        ( /\ pc[w] = "runlock"
          /\ msg[w].Type \in KnownTypes
          /\ StoredThreshold(msg[w].Type) \notin KnownLabels )
        => (sent[w] /\ rule[w].channel = StoredChannel(msg[w].Type))

\* An OS finding with an empty severity has been dispatched under the
\* threshold "high".
C14_Witness ==
    \E w \in Workers :
        /\ pc[w] = "runlock"
        /\ msg[w].Type = "OS"
        /\ msg[w].Severity = ""
        /\ config.OSMinSeverity = "high"
        /\ sent[w]
        /\ rule[w].channel = "#os-v5"

\* C15: before any update is applied the configuration is the default one,
\* an OS finding is dispatched exactly when its uppercased severity is
\* MEDIUM, HIGH or CRITICAL, and then to "#os-vulns", and an APP finding
\* exactly when it is HIGH or CRITICAL, and then to "#app-vulns".
C15_DefaultRouting ==
    ver = 0 =>
        /\ config = [OSChannelName |-> "#os-vulns", OSMinSeverity |-> "MEDIUM",
                     AppChannelName |-> "#app-vulns", AppMinSeverity |-> "HIGH"]
        /\ \A w \in Workers :
            pc[w] = "runlock" =>
                /\ msg[w].Type = "OS"
                    => ( /\ sent[w] <=> ToUpper(msg[w].Severity) \in {"MEDIUM", "HIGH", "CRITICAL"}
                         /\ sent[w] => rule[w].channel = "#os-vulns" )
                /\ msg[w].Type = "APP"
                    => ( /\ sent[w] <=> ToUpper(msg[w].Severity) \in {"HIGH", "CRITICAL"}
                         /\ sent[w] => rule[w].channel = "#app-vulns" )
                /\ msg[w].Type \notin KnownTypes => ~sent[w]

\* Under the defaults an OS finding of severity MEDIUM has been dispatched
\* to "#os-vulns".
C15_Witness ==
    \E w \in Workers :
        /\ ver = 0
        /\ pc[w] = "runlock"
        /\ msg[w].Type = "OS"
        /\ msg[w].Severity = "MEDIUM"
        /\ sent[w]
        /\ rule[w].channel = "#os-vulns"

\* Severity strings, with other spellings of the labels.
SeveritySpellings == Severities \cup {"medium", "high", "critical"}

\* C16: when a worker has decided a finding, the decision the code takes in
\* the same configuration for any finding that differs from it only in the
\* letter case of its severity is the same: the same branch, hence the same
\* channel, or no dispatch.
C16_SeverityCaseInsensitive ==
    \A w \in Workers :
        pc[w] = "runlock" =>
            \A s \in SeveritySpellings :
                ToUpper(s) = ToUpper(msg[w].Severity) =>
                    LET v == [msg[w] EXCEPT !.Severity = s]
                    IN /\ TakesOS(v) <=> (sent[w] /\ rule[w].category = "OS")
                       /\ TakesApp(v) <=> (sent[w] /\ rule[w].category = "APP")

\* An OS finding of severity "low" has been dispatched under the threshold
\* LOW.
C16_Witness ==
    \E w \in Workers :
        /\ pc[w] = "runlock"
        /\ msg[w].Type = "OS"
        /\ msg[w].Severity = "low"
        /\ config.OSMinSeverity = "LOW"
        /\ sent[w]

\* A step of a POST /config handler inside its write section.
UpdateStep ==
    \E h \in Handlers : InWriteSection(h) /\ hpc'[h] # hpc[h]

\* C17: only a step of a POST /config handler in its write section changes
\* config; receiving, counting, deciding, dispatching, acknowledging,
\* rejecting and viewing leave its four fields as they are.
C17_OnlyUpdatesMutateConfig ==
    [][ config' # config => UpdateStep ]_vars

\* A finding has been decided, dispatched and acknowledged after an update,
\* and config is still what that update installed.
C17_Witness ==
    /\ acked = 1
    /\ dispatches = 1
    /\ completedVer = 1
    /\ config = committed
    /\ config # DefaultConfig
    /\ \A h \in Handlers : hpc[h] = "idle"

\* C18: a finding that has been dispatched is of type OS or APP, and the
\* channel it was dispatched to and the threshold it was compared with are
\* the ones config stores for its own type, written by the same update.
C18_OwnCategoryChannel ==
    \A w \in Workers :
        (sent[w] /\ InReadSection(w))
        => ( /\ msg[w].Type \in KnownTypes
             /\ rule[w].category = msg[w].Type
             /\ rule[w].channel = StoredChannel(msg[w].Type)
             /\ rule[w].minSeverity = StoredThreshold(msg[w].Type)
             /\ rule[w].minVer = rule[w].chanVer )

\* An APP finding of severity LOW, which meets the APP threshold LOW and
\* not the OS threshold CRITICAL, has been dispatched to the APP channel.
C18_Witness ==
    \E w \in Workers :
        /\ pc[w] = "slack"
        /\ msg[w].Type = "APP"
        /\ msg[w].Severity = "LOW"
        /\ config.OSMinSeverity = "CRITICAL"
        /\ config.AppMinSeverity = "LOW"
        /\ rule[w].channel = "#app-v3"

\* C19: a sendToSlack call is the first one for the message its worker is
\* handling, so no message is dispatched twice; and the dispatches never
\* outnumber the decoded messages acknowledged or in flight.
C19_AtMostOneDispatchPerMessage ==
    [][ /\ dispatches' # dispatches
            => ( /\ dispatches' = dispatches + 1
                 /\ \E w \in Workers :
                        /\ ~sent[w] /\ sent'[w]
                        /\ \A u \in Workers \ {w} : sent'[u] = sent[u] )
        /\ dispatches' <= acked' + Cardinality({w \in Workers : pc'[w] # "idle"})
      ]_vars

\* Both messages of the run have been dispatched, one acknowledged and one
\* still inside sendToSlack.
C19_Witness ==
    /\ dispatches = 2
    /\ acked = 1
    /\ \E w \in Workers : pc[w] = "slack"

\* The steps of the goroutines in progress (not the arrival of a message or
\* of an HTTP request).
ProgressStep ==
    \/ \E w \in Workers :
        \/ RLock(w) \/ Decide(w) \/ CallOS(w) \/ CallApp(w)
        \/ SlackOk(w) \/ SlackFail(w) \/ RUnlock(w) \/ Ack(w)
    \/ \E h \in Handlers :
        \/ ViewRender(h) \/ ViewRUnlock(h) \/ PostLocked(h)
        \/ PostSetOSChannel(h) \/ PostSetOSMinSeverity(h)
        \/ PostSetAppChannel(h) \/ PostSetAppMinSeverity(h) \/ PostUnlock(h)

\* C20: the read lock is held by exactly the workers and views inside their
\* read sections and the writer mutex by exactly the update between Lock and
\* Unlock, so with every goroutine idle the lock is free and a worker about
\* to acknowledge holds no lock; and while any goroutine is in progress some
\* goroutine can take a step (sendToSlack returning being one).
C20_LockBalanced ==
    /\ \A w \in Workers : w \in rwReaders <=> InReadSection(w)
    /\ \A h \in Handlers : h \in rwReaders <=> InViewSection(h)
    /\ \A h \in Handlers : rwWriter = h <=> (hpc[h] = "drain" \/ InWriteSection(h))
    /\ rwWriting <=> \E h \in Handlers : InWriteSection(h)
    /\ ( (\A w \in Workers : pc[w] = "idle") /\ (\A h \in Handlers : hpc[h] = "idle") )
        => (rwReaders = {} /\ rwWriter = NoProc /\ ~rwWriting)
    /\ ( (\E w \in Workers : pc[w] # "idle") \/ (\E h \in Handlers : hpc[h] # "idle") )
        => ENABLED ProgressStep

\* Every goroutine is idle and the lock is free after two findings, one of
\* them dispatched, and two updates.
C20_Witness ==
    /\ \A w \in Workers : pc[w] = "idle"
    /\ \A h \in Handlers : hpc[h] = "idle"
    /\ acked = 2
    /\ dispatches = 1
    /\ completedVer = 2
    /\ rwReaders = {}
    /\ rwWriter = NoProc

====
